---- MODULE Spec2Model ----
(***************************************************************************)
(* ICommandDispatcher::iterate and IteratorCommand::execute of             *)
(* gatb/tools/designpattern/api/ICommand.hpp: one shared Iterator is       *)
(* drained by several commands, each of which locks a common synchronizer, *)
(* gets up to groupSize items, unlocks and feeds the items to its functor. *)
(*                                                                         *)
(* The items of the iterator are identified with their positions 1..N.     *)
(* Functor instances are identified by numbers: 0 is the functor the       *)
(* caller hands to the single-functor overload, i >= 1 is the i-th functor *)
(* of the vector (or the i-th heap copy made by the overload).             *)
(***************************************************************************)
EXTENDS Integers, Sequences, FiniteSets

\* ---- bounds of the model -------------------------------------------------
MaxN == 3          \* largest number of items of the iterator
MaxG == 2          \* largest groupSize
MaxW == 2          \* largest number of functors / execution units

VARIABLES
    \* inputs of one call (fixed during a run)
    N,            \* number of items the iterator produces
    groupSize,    \* iterate's groupSize argument (a size_t, so >= 0)
    units,        \* functors.size(), resp. getExecutionUnitsNumber()
    single,       \* TRUE: the single-functor overload is called
    lazyEof,      \* Iterator::get reports the end only on a short batch
    badItem,      \* the functor throws on this item (0: on none)
    hangItem,     \* the functor never returns on this item (0: on none)
    srcFaulty,    \* Iterator::get may throw
    cursor0,      \* position of the iterator when iterate is called
    \* state of the caller's thread
    pcMain,       \* where the calling thread is
    functors,     \* std::vector<Functor*> functors: functor ids
    copies,       \* heap copies of the functor that exist (overload)
    synchro,      \* "none" | "alive" | "deleted"
    synId,        \* the object 'synchro' of line 154 points to (0: none yet)
    \* the caller and the heap, across calls of iterate
    again,        \* TRUE once the caller has called iterate a second time
    made,         \* number of synchronizers newSynchro() has created
    freed,        \* the synchronizers that were deleted
    \* shared objects
    cursor,       \* number of items the iterator has delivered
    holders,      \* the commands inside synchro.lock() .. unlock()
    \* state of the IteratorCommand instances (one per functor)
    pc,           \* position of each command in execute()
    fct,          \* _fct of each command (a functor id)
    syn,          \* _synchro of each command (a synchronizer)
    items,        \* the local vector 'items' of each execute()
    idx,          \* the loop index i of line 236 (from 1; 0 outside the loop)
    isRunning,    \* the loop variable of line 222
    \* observations
    nlock,        \* lock() calls made by each command (saturating)
    seen          \* per functor id: the items it was called with, in order

inputs == <<N, groupSize, units, single, lazyEof, badItem, hangItem, srcFaulty,
            cursor0>>
mainv  == <<pcMain, functors, copies, synchro>>
heapv  == <<synId, again, made, freed>>
cmdv   == <<pc, fct, syn, items, idx, isRunning>>
vars   == <<inputs, heapv, mainv, cursor, holders, cmdv, nlock, seen>>

Min(a, b) == IF a < b THEN a ELSE b

\* the commands vector of iterate (line 157): one command per functor
Commands == DOMAIN pc

FunctorIds == 0..MaxW

\* cap of the observation counter nlock (execute() itself has no such cap)
LockCap == MaxN + 2

\* ---- Iterator<Item> (Iterator.hpp): reset and get ------------------------
\* reset(): back to the first item
Reset(c) == 0

\* get(items): the next items, at most max of them
GetItems(c, n, max) == [k \in 1..Min(max, n - c) |-> c + k]

GetCursor(c, n, max) == c + Min(max, n - c)

\* get's result: whether the iteration goes on. An eager iterator reports the
\* end as soon as nothing remains, a lazy one only when it could not fill the
\* vector.
GetMore(c, n, max, lazy) ==
    IF lazy THEN Min(max, n - c) = max ELSE c + Min(max, n - c) < n

\* ---- ISynchronizer (IThread.hpp) ------------------------------------------
LockFree(h) == h = {}

\* newSynchro() (line 200, implemented by the dispatchers): a synchronizer
\* that did not exist before, the made-th one plus one
NewSynchro(m) == m + 1

\* ---- ICommandDispatcher::iterate, single functor (lines 173-194) ----------
\* a slip: the caller's functor itself is shared instead of copied
AliasFunctor(i) == 0

\* line 184: functors[i] = new Functor (functor)
NewFunctor(i) == i

\* lines 183-187: N copies of the functor, then the call of iterate
IterateSingle ==
    /\ pcMain = "single"
    /\ functors' = [i \in 1..units |-> NewFunctor(i)]
    /\ copies' = {NewFunctor(i) : i \in 1..units} \ {0}
    /\ pcMain' = "iterate"
    /\ UNCHANGED <<inputs, heapv, synchro, cursor, holders, cmdv, nlock, seen>>

\* ---- ICommandDispatcher::iterate, vector of functors (lines 151-170) ------
\* a slip: the reset of line 163 left out
IterateNoReset(c) == c

\* line 163: iterator->reset()
IterateReset(c) == Reset(c)

\* a slip: every command is given the first functor of the vector
CommandFunctorFirst(fs, w) == fs[1]

\* line 160: *it, the functor the w-th command is constructed with
CommandFunctor(fs, w) == fs[w]

\* a slip: the synchronizer of an earlier call kept for the later ones
IterateSynchroKept(old, new) == IF old = 0 THEN new ELSE old

\* line 154: synchro = newSynchro ()
IterateSynchro(old, new) == new

\* lines 154-163: the synchronizer, one command per functor, the reset. The
\* observations nlock and seen start afresh with each call.
Iterate ==
    /\ pcMain = "iterate"
    /\ synId' = IterateSynchro(synId, NewSynchro(made))
    /\ made' = made + 1
    /\ synchro' = "alive"
    /\ holders' = IF synId' = synId THEN holders ELSE {}
    /\ syn' = [w \in 1..Len(functors) |-> synId']
    /\ pc' = [w \in 1..Len(functors) |-> "ready"]
    /\ fct' = [w \in 1..Len(functors) |-> CommandFunctor(functors, w)]
    /\ items' = [w \in 1..Len(functors) |-> <<>>]
    /\ idx' = [w \in 1..Len(functors) |-> 0]
    /\ isRunning' = [w \in 1..Len(functors) |-> TRUE]
    /\ nlock' = [w \in 1..Len(functors) |-> 0]
    /\ cursor' = IterateReset(cursor)
    /\ pcMain' = "dispatch"
    /\ seen' = [f \in FunctorIds |-> <<>>]
    /\ UNCHANGED <<inputs, again, freed, functors, copies>>

\* line 166, entry: the dispatcher starts every command
DispatchCommands ==
    /\ pcMain = "dispatch"
    /\ pc' = [w \in Commands |-> "lock"]
    /\ pcMain' = "join"
    /\ UNCHANGED <<inputs, heapv, functors, copies, synchro, cursor, holders,
                   fct, syn, items, idx, isRunning, nlock, seen>>

Terminated(w) == pc[w] \in {"done", "failed"}

\* line 166, exit: the dispatcher has waited for every command; a failure of
\* a command leaves iterate as an exception, past line 169
DispatchReturn ==
    /\ pcMain = "join"
    /\ \A w \in Commands : Terminated(w)
    /\ pcMain' = IF \E w \in Commands : pc[w] = "failed" THEN "raised" ELSE "delete"
    /\ UNCHANGED <<inputs, heapv, functors, copies, synchro, cursor, holders,
                   cmdv, nlock, seen>>

\* a slip: the synchronizer deleted without waiting for the dispatch
IterateEndEarly(p) == p \in {"join", "delete"}

\* line 169 runs once dispatchCommands (line 166) has returned
IterateEndAt(p) == p = "delete"

\* lines 169-170: delete synchro, return (to line 190 for the overload)
IterateEnd ==
    /\ IterateEndAt(pcMain)
    /\ synchro' = "deleted"
    /\ freed' = freed \cup {synId}
    /\ pcMain' = IF single THEN "discard" ELSE "returned"
    /\ UNCHANGED <<inputs, synId, again, made, functors, copies, cursor,
                   holders, cmdv, nlock, seen>>

\* line 190: delete functors[i]
IterateSingleEnd ==
    /\ pcMain = "discard"
    /\ copies' = copies \ {functors[i] : i \in 1..Len(functors)}
    /\ pcMain' = "returned"
    /\ UNCHANGED <<inputs, heapv, functors, synchro, cursor, holders, cmdv,
                   nlock, seen>>

\* ---- IteratorCommand::execute (lines 216-238) -----------------------------
\* a slip: the loop never tests isRunning
LoopForever(running) == "lock"

\* a slip: execute() ends after its first batch
LoopOnce(running) == "done"

\* line 222: the loop test, taken when the for loop of line 236 is over
LoopTest(running) == IF running THEN "lock" ELSE "done"

\* a slip: isRunning tested before the items are processed, so the batch
\* that comes with the end of the iteration is dropped
AfterUnlockDropLast(its, running) ==
    IF Len(its) = 0 \/ ~running THEN LoopTest(running) ELSE "call"

\* a slip: an empty batch taken for an error
AfterUnlockEmptyIsError(its, running) ==
    IF Len(its) = 0 THEN "failed" ELSE "call"

\* a slip: a get that delivered nothing is tried again
AfterUnlockEmptyRetry(its, running) == IF Len(its) = 0 THEN "lock" ELSE "call"

\* line 236: where execute() goes once items are in the vector
AfterUnlock(its, running) == IF Len(its) = 0 THEN LoopTest(running) ELSE "call"

\* a slip: no wait for the synchronizer before the iterator is accessed
ExecLockNoWait(h) == TRUE

\* line 225: _synchro.lock()
ExecLockGuard(h) == LockFree(h)

Lock(w) ==
    /\ pc[w] = "lock"
    /\ ExecLockGuard({v \in holders : syn[v] = syn[w]})
    /\ holders' = holders \cup {w}
    /\ nlock' = [nlock EXCEPT ![w] = Min(@ + 1, LockCap)]
    /\ pc' = [pc EXCEPT ![w] = "get"]
    /\ UNCHANGED <<inputs, heapv, mainv, cursor, fct, syn, items, idx,
                   isRunning, seen>>

\* a slip: the vector one item larger than the group size
ItemsSizeOneMore(g) == g + 1

\* line 219: std::vector<Item> items (_groupSize), the room get() may fill
ItemsSize(g) == g

\* line 228: isRunning = _it->get (items)
Get(w) ==
    /\ pc[w] = "get"
    /\ items' = [items EXCEPT ![w] = GetItems(cursor, N, ItemsSize(groupSize))]
    /\ isRunning' = [isRunning EXCEPT ![w] =
                       GetMore(cursor, N, ItemsSize(groupSize), lazyEof)]
    /\ cursor' = GetCursor(cursor, N, ItemsSize(groupSize))
    /\ pc' = [pc EXCEPT ![w] = "unlock"]
    /\ UNCHANGED <<inputs, heapv, mainv, holders, fct, syn, idx, nlock, seen>>

\* line 228 throws: the exception leaves execute() between lock and unlock
GetThrows(w) ==
    /\ pc[w] = "get"
    /\ srcFaulty
    /\ pc' = [pc EXCEPT ![w] = "failed"]
    /\ UNCHANGED <<inputs, heapv, mainv, cursor, holders, fct, syn, items,
                   idx, isRunning, nlock, seen>>

\* a slip: the unlock of line 231 left out
ExecUnlockMissing(h, w) == h

\* line 231: _synchro.unlock()
ExecUnlock(h, w) == h \ {w}

\* line 231, then the entry of the for loop of line 236
Unlock(w) ==
    /\ pc[w] = "unlock"
    /\ holders' = ExecUnlock(holders, w)
    /\ idx' = [idx EXCEPT ![w] = IF Len(items[w]) = 0 THEN 0 ELSE 1]
    /\ pc' = [pc EXCEPT ![w] = AfterUnlock(items[w], isRunning[w])]
    /\ UNCHANGED <<inputs, heapv, mainv, cursor, fct, syn, items, isRunning,
                   nlock, seen>>

\* a slip: the functor's exception swallowed, the loop goes on
AfterCallSwallow(threw, i, its, running) ==
    IF i < Len(its) THEN "call" ELSE LoopTest(running)

\* line 236, continuation after (*_fct)(items[i]) has thrown or returned
AfterCall(threw, i, its, running) ==
    IF threw THEN "failed"
    ELSE IF i < Len(its) THEN "call" ELSE LoopTest(running)

\* a slip: the for loop of line 236 walks the vector from its end
CallItemBackwards(its, i) == its[Len(its) + 1 - i]

\* line 236: items[i], the item of the i-th iteration of the for loop
CallItem(its, i) == its[i]

\* line 236: (*_fct) (items[i]), one iteration of the for loop; a functor
\* that never returns keeps execute() inside the call ("hung")
Call(w) ==
    /\ pc[w] = "call"
    /\ seen' = [seen EXCEPT ![fct[w]] = Append(@, CallItem(items[w], idx[w]))]
    /\ pc' = [pc EXCEPT ![w] =
                IF CallItem(items[w], idx[w]) = hangItem THEN "hung"
                ELSE AfterCall(CallItem(items[w], idx[w]) = badItem, idx[w],
                               items[w], isRunning[w])]
    /\ idx' = [idx EXCEPT ![w] =
                IF CallItem(items[w], idx[w]) \in {badItem, hangItem} THEN @
                ELSE IF @ < Len(items[w]) THEN @ + 1 ELSE 0]
    /\ UNCHANGED <<inputs, heapv, mainv, cursor, holders, fct, syn, items,
                   isRunning, nlock>>

\* ---- the calls of iterate the model explores ------------------------------
Init ==
    /\ N \in 0..MaxN
    /\ groupSize \in 0..MaxG
    /\ single \in BOOLEAN
    /\ units \in (IF single THEN 1..MaxW ELSE 0..MaxW)
    /\ lazyEof \in BOOLEAN
    /\ badItem \in 0..N
    /\ hangItem \in 0..N
    /\ badItem = 0 \/ hangItem = 0
    /\ srcFaulty \in BOOLEAN
    /\ cursor0 \in 0..N
    /\ cursor = cursor0
    /\ pcMain = IF single THEN "single" ELSE "iterate"
    /\ functors = IF single THEN <<>> ELSE [i \in 1..units |-> i]
    /\ copies = {}
    /\ synchro = "none"
    /\ synId = 0
    /\ again = FALSE
    /\ made = 0
    /\ freed = {}
    /\ holders = {}
    /\ pc = <<>>
    /\ fct = <<>>
    /\ syn = <<>>
    /\ items = <<>>
    /\ idx = <<>>
    /\ isRunning = <<>>
    /\ nlock = <<>>
    /\ seen = [f \in FunctorIds |-> <<>>]

Next ==
    \/ IterateSingle
    \/ Iterate
    \/ DispatchCommands
    \/ DispatchReturn
    \/ IterateEnd
    \/ IterateSingleEnd
    \/ \E w \in Commands : Lock(w)
    \/ \E w \in Commands : Get(w)
    \/ \E w \in Commands : GetThrows(w)
    \/ \E w \in Commands : Unlock(w)
    \/ \E w \in Commands : Call(w)

Spec == Init /\ [][Next]_vars

\* ---- a dispatcher that runs the commands one after another ---------------
\* line 166, entry: execute() of the first command is called
DispatchSerialFirst ==
    /\ pcMain = "dispatch"
    /\ pc' = [w \in Commands |-> IF w = 1 THEN "lock" ELSE pc[w]]
    /\ pcMain' = "join"
    /\ UNCHANGED <<inputs, heapv, functors, copies, synchro, cursor, holders,
                   fct, syn, items, idx, isRunning, nlock, seen>>

\* execute() of command w has returned: execute() of the next one is called
DispatchSerialNext(w) ==
    /\ pcMain = "join"
    /\ pc[w] = "done"
    /\ w + 1 \in Commands
    /\ pc[w + 1] = "ready"
    /\ pc' = [pc EXCEPT ![w + 1] = "lock"]
    /\ UNCHANGED <<inputs, heapv, mainv, cursor, holders, fct, syn, items, idx,
                   isRunning, nlock, seen>>

\* execute() of a command has thrown: the exception leaves dispatchCommands,
\* the commands after it are never run
DispatchSerialRaise ==
    /\ pcMain = "join"
    /\ \E w \in Commands : pc[w] = "failed"
    /\ pcMain' = "raised"
    /\ UNCHANGED <<inputs, heapv, functors, copies, synchro, cursor, holders,
                   cmdv, nlock, seen>>

SerialNext ==
    \/ IterateSingle
    \/ Iterate
    \/ DispatchSerialFirst
    \/ \E w \in Commands : DispatchSerialNext(w)
    \/ DispatchSerialRaise
    \/ DispatchReturn
    \/ IterateEnd
    \/ IterateSingleEnd
    \/ \E w \in Commands : Lock(w)
    \/ \E w \in Commands : Get(w)
    \/ \E w \in Commands : GetThrows(w)
    \/ \E w \in Commands : Unlock(w)
    \/ \E w \in Commands : Call(w)

SerialSpec == Init /\ [][SerialNext]_vars

\* ---- a caller that calls iterate once more ------------------------------
\* the call has ended, by a return or by an exception; the caller calls
\* iterate again with the same arguments
CallAgain ==
    /\ pcMain \in {"returned", "raised"}
    /\ ~again
    /\ again' = TRUE
    /\ pcMain' = IF single THEN "single" ELSE "iterate"
    /\ functors' = IF single THEN <<>> ELSE functors
    /\ UNCHANGED <<inputs, synId, made, freed, copies, synchro, cursor, holders,
                   cmdv, nlock, seen>>

NextTwice == Next \/ CallAgain

SpecTwice == Init /\ [][NextTwice]_vars

\* the scheduling the claims about progress assume: a thread that can take
\* its next step eventually takes it (the calling thread; a command whose
\* next step is lock() once the synchronizer stays free, get, unlock() or a
\* functor call). An exception of Iterator::get is never forced.
Fairness ==
    /\ WF_vars(IterateSingle \/ Iterate \/ DispatchCommands \/ DispatchReturn
                  \/ IterateEnd \/ IterateSingleEnd)
    /\ \A w \in 1..MaxW :
          WF_vars(w \in Commands /\ (Lock(w) \/ Get(w) \/ Unlock(w) \/ Call(w)))

FairSpec == Spec /\ Fairness

\* the fair runs in which every functor call returns or throws
InitReturn == Init /\ hangItem = 0

FairReturnSpec == InitReturn /\ [][Next]_vars /\ Fairness

\* the fair runs in which no functor call throws: it returns or hangs
InitNoThrow == Init /\ badItem = 0

FairNoThrowSpec == InitNoThrow /\ [][Next]_vars /\ Fairness

\* ---- vocabulary of the properties ------------------------------------------
\* every (functor, call number) pair of the run so far
SeenSlots == UNION {{<<f, k>> : k \in DOMAIN seen[f]} : f \in FunctorIds}

\* number of functor invocations item i was passed to
Occ(i) == Cardinality({s \in SeenSlots : seen[s[1]][s[2]] = i})

\* every item of the iterator was passed to exactly one invocation
AllOnce == /\ \A i \in 1..N : Occ(i) = 1
           /\ Cardinality(SeenSlots) = N

Range(q) == {q[k] : k \in DOMAIN q}

RECURSIVE SumLocks(_)
SumLocks(n) == IF n = 0 THEN 0 ELSE nlock[n] + SumLocks(n - 1)

\* lock() calls of the whole run
TotalLocks == SumLocks(Len(nlock))

Ceil(a, b) == (a + b - 1) \div b

\* iterate has been left, by return or by exception
Exited == pcMain \in {"returned", "raised"}

\* dispatchCommands has returned normally
PastDispatch == pcMain \in {"delete", "discard", "returned"}

\* a command that ended by an exception of its functor (line 236), resp. of
\* Iterator::get (line 228, still inside lock/unlock)
ThrewInCall(w) == pc[w] = "failed" /\ w \notin holders
ThrewInGet(w)  == pc[w] = "failed" /\ w \in holders

\* ---- C1 ------------------------------------------------------------------
\* C1: partition completeness. When iterate has returned without a failure,
\* for at least one functor and groupSize >= 1, every item of the iterator
\* was passed to exactly one functor invocation: none twice, none left out.
PartitionComplete ==
    (pcMain = "returned" /\ Len(functors) >= 1 /\ groupSize >= 1) => AllOnce

\* two commands shared the items of a run with several batches
PartitionWitness ==
    /\ pcMain = "returned" /\ N = MaxN /\ groupSize >= 1 /\ Len(functors) = 2
    /\ seen[fct[1]] # <<>> /\ seen[fct[2]] # <<>>
    /\ AllOnce

\* ---- C2 ------------------------------------------------------------------
\* C2: exclusive access. At most one command is inside lock()..unlock() at any
\* time, and a command that is about to call get, or has called it and not
\* yet unlocked, is that command: no two gets on the iterator overlap.
ExclusiveAccess ==
    /\ Cardinality(holders) <= 1
    /\ \A w \in Commands : pc[w] \in {"get", "unlock"} => w \in holders
    /\ Cardinality({w \in Commands : pc[w] \in {"get", "unlock"}}) <= 1

\* one command is about to get while another one waits in lock()
ExclusiveWitness ==
    \E w, v \in Commands :
        /\ w # v
        /\ pc[w] = "get" /\ holders = {w}
        /\ pc[v] = "lock" /\ nlock[v] >= 1

\* ---- C3 ------------------------------------------------------------------
\* C3: iterate returns only after every command has terminated. Once
\* dispatchCommands has returned, every command is done or failed (none is
\* getting, inside the lock or calling its functor); on a normal return the
\* synchronizer is held by nobody; and no functor is invoked any more.
ReturnAfterAllDone ==
    /\ [](/\ (PastDispatch \/ Exited) => \A w \in Commands : Terminated(w)
          /\ PastDispatch => holders = {})
    /\ [][(PastDispatch \/ Exited) => seen' = seen]_vars

\* iterate has returned after two commands have each processed items
ReturnWitness ==
    /\ pcMain = "returned" /\ Len(functors) = 2
    /\ \A w \in Commands : pc[w] = "done" /\ nlock[w] >= 2

\* ---- C4 ------------------------------------------------------------------
\* C4: termination. In a run without failure (groupSize >= 1, neither get nor
\* a functor throws, every functor call returns), under fair scheduling every command eventually is done
\* and iterate eventually returns. A command goes back to lock() only while
\* its last get reported that the iteration goes on, and it is done only
\* after a get that reported the end.
Termination ==
    /\ [](\A w \in Commands :
            /\ pc[w] \in {"lock", "get"} => isRunning[w]
            /\ pc[w] = "done" => ~isRunning[w])
    /\ (groupSize >= 1 /\ ~srcFaulty /\ badItem = 0 /\ hangItem = 0)
          ~> (pcMain = "returned" /\ \A w \in Commands : pc[w] = "done")

\* two commands have both ended on a get that reported the end, after more
\* than one round each
TerminationWitness ==
    /\ pcMain = "returned" /\ Len(functors) = 2 /\ N = MaxN /\ groupSize = 1
    /\ \A w \in Commands : pc[w] = "done" /\ ~isRunning[w] /\ nlock[w] >= 2

\* ---- C5 ------------------------------------------------------------------
\* C5: reset before dispatch. Wherever the iterator stands when iterate is
\* called, it stands at its start when the commands are dispatched and until
\* the first lock(); the first get of the run delivers the items from the
\* first one on; and a run that returns has processed all N items.
ResetBeforeDispatch ==
    /\ (pcMain \in {"dispatch", "join"} /\ TotalLocks = 0) => cursor = 0
    /\ \A w \in Commands :
          (TotalLocks = 1 /\ pc[w] \in {"unlock", "call"})
              => items[w] = GetItems(0, N, groupSize)
    /\ (pcMain = "returned" /\ Len(functors) >= 1 /\ groupSize >= 1)
          => \A i \in 1..N : Occ(i) = 1

\* iterate was called on an iterator that was already consumed, and has
\* returned after processing every item
ResetWitness ==
    /\ cursor0 = N /\ N >= 2
    /\ pcMain = "returned" /\ Len(functors) >= 1 /\ groupSize >= 1
    /\ \A i \in 1..N : Occ(i) = 1

\* ---- C6 ------------------------------------------------------------------
\* C6: failure isolation. A command whose functor throws on an item stops at
\* that item and stays stopped; iterate is then never left by a normal
\* return, and is left only when every command has terminated. If get does
\* not throw and groupSize >= 1, fair scheduling leads to iterate raising the
\* failure, with every other command done, the rest of the failed command's
\* batch unprocessed and, when there is another command, the iterator
\* drained and every item outside that batch processed exactly once.
FailureIsolation ==
    /\ [](\A w \in Commands :
            badItem \in Range(seen[fct[w]])
                => /\ pc[w] = "failed"
                   /\ items[w][idx[w]] = badItem
                   /\ seen[fct[w]][Len(seen[fct[w]])] = badItem)
    /\ [][\A w \in Commands : pc[w] = "failed" => pc'[w] = "failed"]_vars
    /\ []((PastDispatch \/ Exited) /\ (\E w \in Commands : pc[w] = "failed")
            => (pcMain = "raised" /\ \A w \in Commands : Terminated(w)))
    /\ [](PastDispatch => \A s \in SeenSlots : seen[s[1]][s[2]] # badItem)
    /\ ((\E w \in Commands : ThrewInCall(w)) /\ ~srcFaulty /\ groupSize >= 1)
          ~> (/\ pcMain = "raised"
              /\ \E w \in Commands :
                    /\ ThrewInCall(w)
                    /\ \A v \in Commands \ {w} : pc[v] = "done"
                    /\ \A k \in DOMAIN items[w] :
                          Occ(items[w][k]) = IF k <= idx[w] THEN 1 ELSE 0
                    /\ Len(functors) >= 2 =>
                          /\ cursor = N
                          /\ \A i \in (1..N) \ Range(items[w]) : Occ(i) = 1)

\* one functor has thrown in the middle of its batch, the other command went
\* on to process later items, and iterate has raised the failure
FailureWitness ==
    /\ pcMain = "raised" /\ Len(functors) = 2 /\ ~srcFaulty /\ cursor = N
    /\ \E w, v \in Commands :
          /\ ThrewInCall(w) /\ idx[w] < Len(items[w])
          /\ pc[v] = "done"
          /\ \E s \in DOMAIN seen[fct[v]] : seen[fct[v]][s] > badItem

\* ---- C7 ------------------------------------------------------------------
\* C7: the lock is released when get fails. In every state the synchronizer
\* is free or held by a command that is alive between lock() and unlock().
LockReleasedOnGetFailure ==
    \A w \in holders : pc[w] \in {"get", "unlock"}

\* ---- C8 ------------------------------------------------------------------
\* C8: configuration error. A call with groupSize < 1 or without functors is
\* rejected at call time: no command is dispatched, no lock() or get is made,
\* no functor is invoked, and iterate does not return normally.
ConfigurationRejected ==
    (groupSize < 1 \/ (~single /\ units = 0))
        => /\ pcMain \notin {"join", "delete", "discard", "returned"}
           /\ TotalLocks = 0
           /\ SeenSlots = {}

\* ---- C9 ------------------------------------------------------------------
\* C9: the single-functor overload. It makes getExecutionUnitsNumber()
\* pairwise distinct copies of the functor, none of them the caller's functor,
\* and one command per copy; the caller's functor is never invoked; the
\* copies exist as long as the protocol runs and are all deleted when the
\* overload returns.
SingleFunctorCopies ==
    single =>
        /\ seen[0] = <<>>
        /\ pcMain # "single" =>
              /\ Len(functors) = units
              /\ 0 \notin Range(functors)
              /\ \A i, j \in DOMAIN functors : functors[i] = functors[j] => i = j
        /\ pcMain \in {"iterate", "dispatch", "join", "delete", "discard"}
              => copies = Range(functors)
        /\ pcMain \in {"dispatch", "join", "delete", "discard", "returned", "raised"}
              => (Commands = 1..units /\ \A w \in Commands : fct[w] = functors[w])
        /\ pcMain = "returned" => copies = {}

\* the overload has returned after each of two copies has processed items
SingleFunctorWitness ==
    /\ single /\ pcMain = "returned" /\ units = 2 /\ copies = {}
    /\ seen[1] # <<>> /\ seen[2] # <<>> /\ seen[0] = <<>>

\* ---- C10 -----------------------------------------------------------------
\* C10: worker starvation is valid. With groupSize >= 1 and more commands
\* than ceil(N / groupSize), when iterate is left and no get has thrown, some
\* command has made a single get, which delivered no item and reported the
\* end, has invoked its functor on nothing and is done, not failed; and a
\* normal return has still processed all N items.
StarvationValid ==
    (groupSize >= 1 /\ Len(functors) > Ceil(N, groupSize))
        => /\ (Exited /\ holders = {})
                => \E w \in Commands :
                      /\ pc[w] = "done" /\ nlock[w] = 1
                      /\ items[w] = <<>> /\ ~isRunning[w]
                      /\ seen[fct[w]] = <<>>
           /\ pcMain = "returned" => AllOnce

\* two commands for a single batch: one processed every item, the other one
\* found the iterator drained on its first get
StarvationWitness ==
    /\ pcMain = "returned" /\ N = 2 /\ groupSize = 2 /\ Len(functors) = 2
    /\ \E w, v \in Commands :
          /\ nlock[w] = 1 /\ seen[fct[w]] = <<>> /\ pc[w] = "done"
          /\ Len(seen[fct[v]]) = N

HangDoesNotBlockLock ==
    /\ [](\A w \in Commands :
            pc[w] = "hung" => (w \notin holders /\ pcMain = "join"))
    /\ [][\A w \in Commands : pc[w] = "hung" => pc'[w] = "hung"]_vars
    /\ ((\E w \in Commands : pc[w] = "hung") /\ ~srcFaulty /\ groupSize >= 1)
          ~> (/\ pcMain = "join"
              /\ holders = {}
              /\ \E w \in Commands :
                    /\ pc[w] = "hung"
                    /\ \A v \in Commands \ {w} : pc[v] = "done"
                    /\ Len(functors) >= 2 =>
                          /\ cursor = N
                          /\ \A i \in (1..N) \ Range(items[w]) : Occ(i) = 1)

\* one command is stuck on the first item while the other one has taken the
\* lock again and again, processed the later items and is done
HangWitness ==
    /\ pcMain = "join" /\ N = MaxN /\ hangItem = 1 /\ cursor = N
    /\ \E w, v \in Commands :
          /\ pc[w] = "hung"
          /\ pc[v] = "done" /\ nlock[v] >= 2
          /\ Len(seen[fct[v]]) = N - Len(items[w])

\* ---- C13 -----------------------------------------------------------------
\* C13: ordering within a command. The items a functor is called with are in
\* strictly increasing source order; inside the for loop the calls made for
\* the current vector are its first items, in the vector's order, at the end
\* of the functor's call list; and a command is back at lock() or get only
\* when the loop over its vector is over (every item of it was passed).
OrderWithinCommand ==
    /\ \A f \in FunctorIds : \A j, k \in DOMAIN seen[f] :
          j < k => seen[f][j] < seen[f][k]
    /\ \A w \in Commands :
          /\ pc[w] = "call" =>
                /\ idx[w] \in 1..Len(items[w])
                /\ Len(seen[fct[w]]) >= idx[w] - 1
                /\ \A k \in 1..(idx[w] - 1) :
                      seen[fct[w]][Len(seen[fct[w]]) - (idx[w] - 1) + k] = items[w][k]
          /\ (pc[w] \in {"lock", "get"} /\ nlock[w] >= 1) =>
                /\ idx[w] = 0
                /\ \A k \in DOMAIN items[w] : items[w][k] \in Range(seen[fct[w]])

\* the two functors were called in an order that is not the source order:
\* the second command has processed item 3 while item 2, fetched before by
\* the first command, is still waiting in that command's vector
OrderWitness ==
    /\ Commands = {1, 2} /\ N = MaxN /\ groupSize = 2
    /\ pc[1] = "call" /\ idx[1] = 2 /\ items[1] = <<1, 2>>
    /\ seen[fct[1]] = <<1>> /\ seen[fct[2]] = <<3>>

\* ---- C14 -----------------------------------------------------------------
\* the group of the source that item i belongs to, for groups of g items
Block(i, g) == {j \in 1..N : (j - 1) \div g = (i - 1) \div g}

\* C14: batch shape. The vector of a command is a contiguous run of the
\* source of at most groupSize items that starts at a multiple of groupSize;
\* a non-empty vector shorter than groupSize ends with the last item of the
\* source; and between two batches a functor has seen whole groups only, the
\* single shorter one being the group that ends the source.
BatchShape ==
    \A w \in Commands :
        /\ Len(items[w]) <= groupSize
        /\ \A k \in DOMAIN items[w] : items[w][k] = items[w][1] + k - 1
        /\ Len(items[w]) >= 1 =>
              /\ (items[w][1] - 1) % groupSize = 0
              /\ Len(items[w]) = groupSize \/ items[w][Len(items[w])] = N
        /\ (groupSize >= 1 /\ pc[w] \in {"lock", "get", "unlock", "done"}) =>
              \A i \in Range(seen[fct[w]]) :
                  Block(i, groupSize) \subseteq Range(seen[fct[w]])

\* three items in groups of two: one functor was given the whole group
\* <<1, 2>>, the other one the short group <<3>> that ends the source
BatchShapeWitness ==
    /\ pcMain = "returned" /\ N = 3 /\ groupSize = 2 /\ Commands = {1, 2}
    /\ seen[fct[1]] = <<1, 2>> /\ seen[fct[2]] = <<3>>
    /\ items[2] = <<3>>

\* ---- C15 -----------------------------------------------------------------
\* the commands of the call in progress exist (lines 157-166 and after)
InCall == pcMain \notin {"single", "iterate"}

\* C15: lifecycle of the synchronizer. Each call of iterate has a
\* synchronizer of its own, the last one newSynchro() made, which no earlier
\* call had; every command of the call refers to it; a command that is at
\* lock(), get or unlock() refers to a synchronizer that was not deleted; a
\* deleted synchronizer is referred to only by commands whose execute() is
\* over and is held by nobody; and a synchronizer is deleted only by the
\* call that owns it, after dispatchCommands has returned, with every
\* command at the end of execute() and nobody inside lock() .. unlock().
SynchroLifecycle ==
    /\ [](InCall =>
            /\ synId = made /\ synId >= 1
            /\ again => synId > 1
            /\ \A w \in Commands : syn[w] = synId)
    /\ [](\A w \in Commands :
            /\ pc[w] \in {"ready", "lock", "get", "unlock", "call", "hung"}
                  => syn[w] \notin freed
            /\ syn[w] \in freed => (pc[w] = "done" /\ w \notin holders))
    /\ [](InCall /\ synId \in freed => pcMain \in {"discard", "returned"})
    /\ [][freed' # freed =>
            /\ pcMain = "delete" /\ InCall'
            /\ freed' = freed \cup {synId} /\ synId \notin freed
            /\ holders = {}
            /\ \A w \in Commands : pc[w] = "done" /\ syn[w] = synId]_vars

\* the second call of iterate: the synchronizer of the first call is deleted
\* and a command of the second call is inside lock() .. unlock() of the new
\* one, while another command waits for it
SynchroWitness ==
    /\ again /\ pcMain = "join" /\ freed = {1} /\ synId = 2
    /\ \E w, v \in Commands :
          /\ pc[w] = "get" /\ holders = {w} /\ syn[w] = 2
          /\ pc[v] = "lock" /\ syn[v] = 2 /\ nlock[v] >= 1

\* ---- C16 -----------------------------------------------------------------
\* a command whose execute() has been called and has not ended
Running(w) == pc[w] \in {"lock", "get", "unlock", "call", "hung"}

\* C16: a serial dispatcher gives the same result. When the commands are run
\* one after another, at most one execute() is in progress and nobody waits
\* for the synchronizer; a command other than the first is started on a
\* drained iterator (for groupSize >= 1); and when iterate has returned, for
\* groupSize >= 1 and at least one functor, the functor of the first command
\* was called with the items 1 .. N in this order, every other command has
\* locked once, got no item and the end of the iteration, and called its
\* functor on nothing: every item was passed to exactly one invocation, as
\* with the concurrent dispatcher.
SerialResult ==
    /\ \A w, v \in Commands : (Running(w) /\ Running(v)) => w = v
    /\ \A w \in Commands : pc[w] = "lock" => holders = {}
    /\ \A w \in Commands :
          (w > 1 /\ groupSize >= 1 /\ pc[w] # "ready") => cursor = N
    /\ (pcMain = "returned" /\ Len(functors) >= 1 /\ groupSize >= 1) =>
          /\ seen[fct[1]] = [k \in 1..N |-> k]
          /\ \A w \in Commands \ {1} :
                /\ pc[w] = "done" /\ nlock[w] = 1
                /\ items[w] = <<>> /\ ~isRunning[w]
                /\ seen[fct[w]] = <<>>
          /\ AllOnce

\* a serial run of two commands over several batches has returned: the
\* first command has made the gets of the whole iteration
SerialWitness ==
    /\ pcMain = "returned" /\ N = MaxN /\ groupSize = 1 /\ Commands = {1, 2}
    /\ Len(seen[fct[1]]) = N /\ nlock[1] >= N
    /\ nlock[2] = 1 /\ seen[fct[2]] = <<>>

\* ---- C17 -----------------------------------------------------------------
\* the items the commands have got so far: those passed to a functor and
\* those in the vectors
Fetched ==
    UNION {Range(seen[f]) : f \in FunctorIds}
        \cup UNION {Range(items[w]) : w \in Commands}

\* C17: the fetched prefix. From the dispatch on, the items got so far are
\* exactly the items 1 .. cursor of the iterator; the vectors of two commands
\* have no item in common, each being a run of consecutive items; no item was
\* passed to two invocations; an item a functor was called with is in no
\* other command's vector; and the items of a vector that are still to be
\* processed were passed to no functor yet.
FetchedPrefix ==
    InCall =>
        /\ Fetched = 1..cursor
        /\ \A i \in 1..N : Occ(i) <= 1
        /\ \A w \in Commands :
              /\ \A k \in DOMAIN items[w] : items[w][k] = items[w][1] + k - 1
              /\ \A v \in Commands \ {w} :
                    /\ Range(items[w]) \cap Range(items[v]) = {}
                    /\ Range(seen[fct[w]]) \cap Range(items[v]) = {}
              /\ pc[w] \in {"unlock", "call"} =>
                    \A k \in DOMAIN items[w] :
                        (pc[w] = "unlock" \/ k >= idx[w]) =>
                            \A f \in FunctorIds : items[w][k] \notin Range(seen[f])

\* two commands hold a batch each while the iterator has items left: one
\* has processed the first item of its batch, the other none of its own
FetchedWitness ==
    /\ pcMain = "join" /\ N = MaxN /\ groupSize = 1 /\ Commands = {1, 2}
    /\ cursor = 2 /\ srcFaulty = FALSE /\ badItem = 0 /\ hangItem = 0
    /\ items[1] = <<2>> /\ pc[1] = "call"
    /\ items[2] = <<1>> /\ pc[2] = "lock" /\ seen[fct[2]] = <<1>>

\* ---- C18 -----------------------------------------------------------------
\* the functors given to iterate are pairwise distinct objects
DistinctFunctors ==
    \A i, j \in DOMAIN functors : functors[i] = functors[j] => i = j

\* C18: a functor belongs to one command. When the functors given to iterate
\* are pairwise distinct, every one of them is the functor of exactly one
\* command; two commands that are in their for loops, or stuck in a functor
\* call, are there with different functors; and every call a functor
\* receives is a step of the one command that owns it, no other command
\* moving in that step.
RoutineExclusive ==
    /\ []((InCall /\ DistinctFunctors) =>
            /\ \A i \in DOMAIN functors :
                  Cardinality({w \in Commands : fct[w] = functors[i]}) = 1
            /\ \A w, v \in Commands :
                  (/\ pc[w] \in {"call", "hung"}
                   /\ pc[v] \in {"call", "hung"}
                   /\ fct[w] = fct[v]) => w = v)
    /\ [][(InCall /\ DistinctFunctors) =>
            \A f \in FunctorIds :
                seen'[f] # seen[f] =>
                    \E w \in Commands :
                        /\ fct[w] = f /\ pc[w] = "call"
                        /\ seen'[f] = Append(seen[f], items[w][idx[w]])
                        /\ \A v \in Commands \ {w} :
                              fct[v] # f /\ pc'[v] = pc[v]]_vars

\* the first command is inside a call of its functor that does not return
\* while the second one, with calls of its own functor behind it, is in its
\* for loop
RoutineWitness ==
    /\ pcMain = "join" /\ Commands = {1, 2} /\ fct[1] # fct[2]
    /\ pc[1] = "hung" /\ pc[2] = "call"
    /\ seen[fct[1]] # <<>> /\ seen[fct[2]] # <<>>

\* ---- C19 -----------------------------------------------------------------
\* C19: bounded lock traffic. With groupSize >= 1, the lock() calls of all
\* the commands together never exceed ceil(N / groupSize) plus the number of
\* commands; a command is at lock() or at get only while the last get it
\* made, if any, reported that the iteration goes on; and when iterate has
\* returned every command has locked, and got, at least once, its last get
\* being the one that reported the end.
BoundedLockTraffic ==
    (InCall /\ groupSize >= 1) =>
        /\ TotalLocks <= Ceil(N, groupSize) + Len(functors)
        /\ \A w \in Commands :
              /\ nlock[w] <= Ceil(N, groupSize) + 1
              /\ pc[w] \in {"lock", "get"} => isRunning[w]
              /\ pc[w] = "done" => (nlock[w] >= 1 /\ ~isRunning[w])
        /\ pcMain = "returned" =>
              \A w \in Commands : pc[w] = "done" /\ nlock[w] >= 1

\* the bound is met: an iterator that reports its end only by a short batch,
\* read one item at a time by two commands
LockTrafficWitness ==
    /\ pcMain = "returned" /\ N = MaxN /\ groupSize = 1 /\ Commands = {1, 2}
    /\ lazyEof
    /\ nlock[1] >= 2 /\ nlock[2] >= 2
    /\ TotalLocks = Ceil(N, groupSize) + Len(functors)

====
